---- MODULE Spec2Model ----
(***************************************************************************)
(* Ravel: the real-server coordinator (cmd/ravel, blockForever) and the    *)
(* BGP worker's reconciler (pkg/bgp: watches, periodic, performReconfigure,*)
(* configure, configure6, setAddresses, setAddresses6).                    *)
(*                                                                         *)
(* The specifications share the variables:                                 *)
(*   SpecCoord    the coordinator loop of blockForever, or the director    *)
(*                command's RunE, and the root context (FairSpecCoord:     *)
(*                with the scheduling of the Go runtime);                  *)
(*   Spec         one bgpserver: its watches() and periodic() goroutines,  *)
(*                the kernel loopback, the BGP speaker and IPVS;           *)
(*   SpecLife     one bgpserver from Start() to Stop(), with the root      *)
(*                context (FairSpecLife: with the scheduling);             *)
(*   SpecTickers  one bgpserver with the channels of its tickers.          *)
(***************************************************************************)
EXTENDS Integers, Sequences, FiniteSets, TLC

(***************************************************************************)
(* Bounds of the model.                                                    *)
(***************************************************************************)
\* largest failover threshold (config.FailoverTimeout) tried
MaxMaxTries == 3
\* number of probe results fed to blockForever
MaxProbes == 5
\* latest reading of time.Now() at which a watch delivery or a tick may begin
MaxTime == 3

VARIABLES
  \* ---- blockForever (cmd/ravel/ipvsbackend_realserver.go) ----
  maxTries,          \* parameter maxTries
  tries,             \* local tries
  lastMasterStatus,  \* local lastMasterStatus
  bfState,           \* "running" (in the for/select) or "returned"
  bfResult,          \* "none" while running, else "nil" or "err"
  ctxStops,          \* number of worker.Stop() calls made by the ctx.Done case
  hist,              \* one record per probe handled by the controlChan case
  \* ---- bgpserver (pkg/bgp) ----
  config,            \* b.config: NilConfig until the first delivery
  nodes,             \* b.nodes
  newConfig,         \* b.newConfig
  lastInboundUpdate, \* b.lastInboundUpdate (0 is the zero time.Time)
  lastReconfigure,   \* b.lastReconfigure   (0 is the zero time.Time)
  wpc,               \* position of the watches() goroutine, the value received
  ppc,               \* position of the periodic() goroutine
  loc,               \* locals of the running setAddresses / setAddresses6
  \* ---- the collaborators the worker programs ----
  lo4, lo6,          \* VIP devices on the loopback, per family (ipDevices)
  \* ---- observation of the run ----
  tick,              \* the tick periodic() is handling, or handled last
  run,               \* the configure() / configure6() run in progress
  obs,               \* what has happened since the last successful reconcile
  \* ---- the root context, the tickers, Stop(), the director command ----
  ctxDone,           \* the root context (ctx, b.ctx) has been cancelled
  ready,             \* the tickers of periodic() whose channel holds a tick
  stop,              \* the Stop() call on the worker: position, steps, result
  dir                \* position of the director command's RunE

coordVars == <<maxTries, tries, lastMasterStatus, bfState, bfResult, ctxStops, hist>>

lifeVars == <<ctxDone, ready, stop, dir>>

storeVars == <<config, nodes, newConfig, lastInboundUpdate, lastReconfigure>>
kernelVars == <<lo4, lo6>>
bgpVars == <<config, nodes, newConfig, lastInboundUpdate, lastReconfigure,
             wpc, ppc, loc, lo4, lo6, tick, run, obs>>

vars == <<maxTries, tries, lastMasterStatus, bfState, bfResult, ctxStops, hist,
          config, nodes, newConfig, lastInboundUpdate, lastReconfigure,
          wpc, ppc, loc, lo4, lo6, tick, run, obs,
          ctxDone, ready, stop, dir>>

(***************************************************************************)
(* blockForever                                                            *)
(***************************************************************************)

\* A plausible slip: the start branch forgets the threshold test.
Branch_EagerStart(masterRunning, last, t, mt) ==
  IF masterRunning /\ masterRunning # last THEN "Stop"
  ELSE IF masterRunning # last THEN "Start"
  ELSE "none"

\* A plausible slip: yielding also waits for the threshold.
Branch_SlowYield(masterRunning, last, t, mt) ==
  IF masterRunning /\ masterRunning # last /\ t >= mt THEN "Stop"
  ELSE IF masterRunning # last /\ t >= mt THEN "Start"
  ELSE IF masterRunning # last THEN "hazard"
  ELSE "none"

\* A plausible slip: the yield branch forgets to compare with the last status.
Branch_StopOnTrue(masterRunning, last, t, mt) ==
  IF masterRunning THEN "Stop"
  ELSE IF masterRunning # last /\ t >= mt THEN "Start"
  ELSE IF masterRunning # last THEN "hazard"
  ELSE "none"

\* A plausible slip: the threshold test is strict.
Branch_LateStart(masterRunning, last, t, mt) ==
  IF masterRunning /\ masterRunning # last THEN "Stop"
  ELSE IF masterRunning # last /\ t > mt THEN "Start"
  ELSE IF masterRunning # last THEN "hazard"
  ELSE "none"

\* The if / else-if chain of the controlChan case: which branch is taken.
Branch(masterRunning, last, t, mt) ==
  IF masterRunning /\ masterRunning # last THEN "Stop"
  ELSE IF masterRunning # last /\ t >= mt THEN "Start"
  ELSE IF masterRunning # last THEN "hazard"
  ELSE "none"

\* tries := maxTries
InitTries(mt) == mt

CoordInit ==
  /\ maxTries \in 1..MaxMaxTries
  /\ tries = InitTries(maxTries)
  /\ lastMasterStatus = TRUE
  /\ bfState = "running"
  /\ bfResult = "none"
  /\ ctxStops = 0
  /\ hist = <<>>
  /\ dir = "off"

\* case masterRunning := <-controlChan, with the result err of the
\* worker.Start() / worker.Stop() call the branch makes.
HandleProbe(masterRunning, err) ==
  /\ bfState = "running"
  /\ Len(hist) < MaxProbes
  /\ LET br == Branch(masterRunning, lastMasterStatus, tries, maxTries)
         failed == err /\ br \in {"Start", "Stop"}
     IN
     /\ hist' = Append(hist, [r |-> masterRunning, last |-> lastMasterStatus,
                              t |-> tries, call |-> br, err |-> failed,
                              c |-> ctxDone])
     /\ IF failed
        THEN \* return err
             /\ bfState' = "returned"
             /\ bfResult' = "err"
             /\ UNCHANGED <<tries, lastMasterStatus>>
        ELSE IF br = "hazard"
        THEN \* tries++; continue
             /\ tries' = tries + 1
             /\ UNCHANGED <<lastMasterStatus, bfState, bfResult>>
        ELSE \* lastMasterStatus = masterRunning; tries = 1
             /\ lastMasterStatus' = masterRunning
             /\ tries' = 1
             /\ UNCHANGED <<bfState, bfResult>>
  /\ UNCHANGED <<maxTries, ctxStops, bgpVars, lifeVars>>

\* case <-ctx.Done(): return worker.Stop()
CtxDone(err) ==
  /\ bfState = "running"
  /\ ctxDone
  /\ ctxStops' = ctxStops + 1
  /\ bfState' = "returned"
  /\ bfResult' = IF err THEN "err" ELSE "nil"
  /\ UNCHANGED <<maxTries, tries, lastMasterStatus, hist, bgpVars, lifeVars>>

\* The root context is cancelled (the process is told to exit).
RootCancel ==
  /\ ~ctxDone
  /\ ctxDone' = TRUE
  /\ UNCHANGED <<coordVars, bgpVars, ready, stop, dir>>

(***************************************************************************)
(* The director command (IPVSMASTER, RunE)                                 *)
(***************************************************************************)

\* the director command has been chosen: RunE is about to start the worker
DirectorInit ==
  /\ maxTries = 1
  /\ tries = 1
  /\ lastMasterStatus = TRUE
  /\ bfState = "off"
  /\ bfResult = "none"
  /\ ctxStops = 0
  /\ hist = <<>>
  /\ dir = "start"

\* err = worker.Start(); if err != nil { return err }
DirectorStart(ok) ==
  /\ dir = "start"
  /\ dir' = IF ok THEN "select" ELSE "returned"
  /\ UNCHANGED <<coordVars, bgpVars, ctxDone, ready, stop>>

\* for { select { case <-ctx.Done(): ... } }: the only case is received
DirectorCtxDone ==
  /\ dir = "select"
  /\ ctxDone
  /\ dir' = "case"
  /\ UNCHANGED <<coordVars, bgpVars, ctxDone, ready, stop>>

\* the case has no statement (return worker.Stop() is commented out): the
\* for loop goes round to its select
DirectorLoop ==
  /\ dir = "case"
  /\ dir' = "select"
  /\ UNCHANGED <<coordVars, bgpVars, ctxDone, ready, stop>>

Probe == \E masterRunning \in BOOLEAN, err \in BOOLEAN : HandleProbe(masterRunning, err)
Cancel == \E err \in BOOLEAN : CtxDone(err)
Director == (\E ok \in BOOLEAN : DirectorStart(ok)) \/ DirectorCtxDone \/ DirectorLoop

CoordNext == Probe \/ Cancel \/ RootCancel \/ Director



(***************************************************************************)
(* bgpserver: values                                                       *)
(***************************************************************************)

\* b.config before the first ConfigMap delivery (a nil *types.ClusterConfig)
NilConfig == [nil |-> TRUE]

\* The ClusterConfig values the ConfigMap watch delivers: the VIP keys of
\* Config and of Config6 (each delivery is a complete snapshot).
ConfigVals ==
  { [Config |-> {},                       Config6 |-> {}],
    [Config |-> {"10.0.0.1", "10.0.0.2"}, Config6 |-> {"fd00::1"}] }

\* The announced addresses bgp.Get may report: none, or one VIP.
BgpGetVals == { {}, {"10.0.0.1"} }

\* The node lists the node watch delivers: two orders of the same nodes.
NodeVals == { <<"n1", "n2">>, <<"n2", "n1">> }

Range(f) == { f[i] : i \in DOMAIN f }

Max(a, b) == IF a >= b THEN a ELSE b

\* time.Now(): later than every time stamp taken before
Now == Max(lastInboundUpdate, lastReconfigure) + 1

\* ipDevices.Device(ip, v6): the loopback device name derived from a VIP
Device(ip) == <<"k2i", ip>>

\* devToAddr[device]
DevToAddr(device) == device[2]

\* ipDevices.Compare4 / Compare6: (removals, additions) by set difference
Compare(configured, desired) ==
  [removals |-> configured \ desired, additions |-> desired \ configured]

\* types.NodesEqual: the same nodes, whatever their order
NodesEqual(a, b) == Len(a) = Len(b) /\ Range(a) = Range(b)

\* ipvs.CheckConfigParity on a non-nil config: true iff no new config is
\* flagged, the loopback holds exactly the desired devices, and the IPVS
\* rules in the kernel are the desired ones (ipvsSame: the kernel's IPVS
\* table is outside the model, so the caller allows both answers).
CheckConfigParity(n, c, addresses, flag, ipvsSame) ==
  /\ ~flag
  /\ addresses = { Device(ip) : ip \in c.Config \cup c.Config6 }
  /\ ipvsSame

\* A plausible slip: equal time stamps also count as nothing to do.
noUpdatesReady_OrEqual == lastReconfigure - lastInboundUpdate >= 0

\* A plausible slip: the two time stamps are swapped.
noUpdatesReady_Swapped == lastInboundUpdate - lastReconfigure > 0

\* func (b *bgpserver) noUpdatesReady() bool
noUpdatesReady == lastReconfigure - lastInboundUpdate > 0

(***************************************************************************)
(* bgpserver: records that observe a run                                   *)
(***************************************************************************)

NoLoc == [removals |-> {}, additions |-> {}, addresses |-> {}]

\* cr: what b.configReady() returned to the parity check of the tick ("none"
\* before the call and once configure() is under way)
NoTick == [kind |-> "none", done |-> TRUE, skipped |-> FALSE, nur |-> FALSE,
           calls |-> <<>>, errs |-> {}, metrics |-> <<>>,
           retryOf |-> 0, drift |-> {}, nc |-> FALSE, cr |-> "none"]

\* the record of a tick that periodic() starts to handle
NewTick(kind) ==
  [kind |-> kind, done |-> FALSE, skipped |-> FALSE, nur |-> noUpdatesReady,
   calls |-> <<>>, errs |-> {}, metrics |-> <<>>,
   retryOf |-> obs.failed, drift |-> obs.drift,
   nc |-> newConfig /\ wpc.at # "locked", cr |-> "none"]

NoRun == [fam |-> 0, ops |-> <<>>, cfgs |-> {}, nds |-> {}, announced |-> {},
          lr0 |-> 0, err |-> FALSE, again |-> FALSE, lo0 |-> {},
          configuredAddrs |-> {}, sets |-> <<>>]

\* the record of a configure() (fam = 4) or configure6() (fam = 6) run
NewRun(fam) ==
  [fam |-> fam, ops |-> <<>>, cfgs |-> {}, nds |-> {}, announced |-> {},
   lr0 |-> lastReconfigure, err |-> FALSE,
   again |-> (fam = 4 /\ obs.kept = "yes"),
   lo0 |-> IF fam = 4 /\ obs.kept = "yes" THEN lo4 ELSE {},
   configuredAddrs |-> {}, sets |-> <<>>]

\* Stop() has not been called: its position, the steps it has taken, the
\* outcome of cleanup's Teardown, the error it returned
NoStop == [at |-> "idle", log |-> <<>>, teardown |-> "none", res |-> "none"]

\* polled: no config has been delivered since the last configReady() call
\* (or, before the first call, since the worker was made).
\* kept: "yes" from the return of a configure() that succeeded and saw no
\* watch event and no outside change of the loopback while it ran, until the
\* next watch event or outside change; "running" while such a run is under way
NoObs == [failed |-> 0, drift |-> {}, dirty |-> FALSE, settled |-> FALSE,
          kept |-> "no", polled |-> TRUE]

\* watches() has written to the store
ObsWatchEvent == [failed |-> 0, drift |-> {}, dirty |-> TRUE, settled |-> FALSE,
                  kept |-> "no", polled |-> obs.polled]

\* obs.kept when a configure() begins
KeptAtBegin == IF obs.kept = "yes" THEN "yes" ELSE "running"

\* obs.kept when a configure() returns err
KeptAtReturn(err) == IF ~err /\ obs.kept \in {"yes", "running"} THEN "yes" ELSE "no"

\* the state after NewBGPWorker
BgpInit ==
  /\ config = NilConfig
  /\ nodes = <<>>
  /\ newConfig = FALSE
  /\ lastInboundUpdate = 0
  /\ lastReconfigure = 0
  /\ wpc = [at |-> "off", got |-> <<>>]
  /\ ppc = "off"
  /\ loc = NoLoc
  /\ lo4 = {} /\ lo6 = {}
  /\ tick = NoTick
  /\ run = NoRun
  /\ obs = NoObs
  /\ ctxDone = FALSE
  /\ ready = {}
  /\ stop = NoStop

\* the process is alive (no goroutine has panicked)
Alive == ppc # "panic" /\ stop.at # "panic"

(***************************************************************************)
(* bgpserver: Start and watches()                                          *)
(***************************************************************************)

\* func (b *bgpserver) Start(): setup, go b.watches(), go b.periodic()
Start ==
  /\ ppc = "off"
  /\ ppc' = "select"
  /\ wpc' = [at |-> "select", got |-> <<>>]
  /\ UNCHANGED <<storeVars, kernelVars, loc, tick, run, obs, coordVars, lifeVars>>

\* case nodes := <-b.nodeChan
WatchesRecvNodes(n) ==
  /\ Alive
  /\ wpc.at = "select"
  /\ Now <= MaxTime
  /\ wpc' = [at |-> "got_nodes", got |-> n]
  /\ UNCHANGED <<storeVars, kernelVars, ppc, loc, tick, run, obs, coordVars, lifeVars>>

\* A plausible slip: the comparison result is ignored and the list is stored.
WatchesCompareNodes_AlwaysStore ==
  /\ Alive
  /\ wpc.at = "got_nodes"
  /\ nodes' = wpc.got
  /\ wpc' = [at |-> "locked", got |-> <<>>]
  /\ obs' = ObsWatchEvent
  /\ UNCHANGED <<config, newConfig, lastInboundUpdate, lastReconfigure,
                 kernelVars, ppc, loc, tick, run, coordVars, lifeVars>>

\* if types.NodesEqual(b.nodes, nodes) { NodeUpdate("noop"); continue }
\* else: b.Lock(); b.nodes = nodes
WatchesCompareNodes ==
  /\ Alive
  /\ wpc.at = "got_nodes"
  /\ IF NodesEqual(nodes, wpc.got)
     THEN /\ wpc' = [at |-> "noop", got |-> <<>>]
          /\ UNCHANGED <<nodes, obs>>
     ELSE /\ nodes' = wpc.got
          /\ wpc' = [at |-> "locked", got |-> <<>>]
          /\ obs' = ObsWatchEvent
  /\ UNCHANGED <<config, newConfig, lastInboundUpdate, lastReconfigure,
                 kernelVars, ppc, loc, tick, run, coordVars, lifeVars>>

\* b.metrics.NodeUpdate("noop"); continue
WatchesContinue ==
  /\ Alive
  /\ wpc.at = "noop"
  /\ wpc' = [at |-> "select", got |-> <<>>]
  /\ UNCHANGED <<storeVars, kernelVars, ppc, loc, tick, run, obs, coordVars, lifeVars>>

\* case configs := <-b.configChan: b.Lock(); b.config = configs; b.newConfig = true
WatchesRecvConfig(c) ==
  /\ Alive
  /\ wpc.at = "select"
  /\ Now <= MaxTime
  /\ config' = c
  /\ newConfig' = TRUE
  /\ wpc' = [at |-> "locked", got |-> c]
  /\ obs' = [ObsWatchEvent EXCEPT !.polled = FALSE]
  /\ UNCHANGED <<nodes, lastInboundUpdate, lastReconfigure, kernelVars, ppc,
                 loc, tick, run, coordVars, lifeVars>>

\* b.lastInboundUpdate = time.Now(); b.Unlock()
WatchesStamp ==
  /\ Alive
  /\ wpc.at = "locked"
  /\ lastInboundUpdate' = Now
  /\ wpc' = [at |-> "select", got |-> <<>>]
  /\ obs' = ObsWatchEvent
  /\ UNCHANGED <<config, nodes, newConfig, lastReconfigure, kernelVars, ppc,
                 loc, tick, run, coordVars, lifeVars>>


(***************************************************************************)
(* bgpserver: periodic() and performReconfigure()                          *)
(***************************************************************************)

\* a tick may begin (the clock bound of the model)
MayTick == Alive /\ ppc = "select" /\ Now <= MaxTime

\* the case of periodic()'s select that handled the tick is finished
EndTick(t, fam) ==
  /\ ppc' = "done"
  /\ tick' = [t EXCEPT !.done = TRUE]
  /\ loc' = NoLoc
  /\ obs' = [obs EXCEPT
               !.settled = t.calls = <<4, 6>> /\ t.errs = {} /\ ~obs.dirty,
               !.failed = IF t.kind = "fast" /\ t.errs # {} /\ ~obs.dirty
                          THEN fam ELSE 0,
               !.kept = IF fam = 4 THEN "no" ELSE @,
               !.polled = IF ppc = "pr_parity" THEN TRUE ELSE @]

\* configure() / configure6() is entered
BeginRun(t, fam) ==
  /\ ppc' = "sa_get"
  /\ run' = NewRun(fam)
  /\ tick' = [t EXCEPT !.calls = Append(t.calls, fam)]
  /\ loc' = NoLoc

\* periodic() is back at the head of its for loop, before the select
LoopAgain ==
  /\ Alive
  /\ ppc = "done"
  /\ ppc' = "select"
  /\ tick' = NoTick
  /\ run' = NoRun
  /\ UNCHANGED <<storeVars, kernelVars, wpc, loc, obs, coordVars, lifeVars>>

\* case <-queueDepthTicker.C: b.metrics.QueueDepth(len(b.configChan))
QueueDepthTick ==
  /\ MayTick
  /\ tick' = [NoTick EXCEPT !.kind = "queue"]
  /\ ppc' = "done"
  /\ ready' = ready \ {"queue"}
  /\ UNCHANGED <<storeVars, kernelVars, wpc, loc, run, obs, coordVars,
                 ctxDone, stop, dir>>

\* case <-reconfigureTicker.C: b.configure() is called
ForcedTick ==
  /\ MayTick
  /\ BeginRun(NewTick("forced"), 4)
  /\ obs' = [obs EXCEPT !.dirty = FALSE, !.settled = FALSE, !.failed = 0,
                        !.kept = KeptAtBegin]
  /\ ready' = ready \ {"forced"}
  /\ UNCHANGED <<storeVars, kernelVars, wpc, coordVars, ctxDone, stop, dir>>

\* case <-bgpTicker.C: performReconfigure() up to its noUpdatesReady() test
FastTick ==
  /\ MayTick
  /\ IF noUpdatesReady
     THEN /\ tick' = [NewTick("fast") EXCEPT !.done = TRUE, !.skipped = TRUE]
          /\ ppc' = "done"
          /\ UNCHANGED obs
     ELSE /\ tick' = NewTick("fast")
          /\ ppc' = "pr_get"
          /\ obs' = [obs EXCEPT !.dirty = FALSE, !.settled = FALSE, !.failed = 0]
  /\ ready' = ready \ {"fast"}
  /\ UNCHANGED <<storeVars, kernelVars, wpc, loc, run, coordVars,
                 ctxDone, stop, dir>>

\* performReconfigure: addressesV4, addressesV6, err := b.ipDevices.Get()
ReconfigureGet(ok) ==
  /\ Alive
  /\ ppc = "pr_get"
  /\ IF ok
     THEN /\ loc' = [NoLoc EXCEPT !.addresses = lo4 \cup lo6]
          /\ ppc' = "pr_parity"
          /\ UNCHANGED <<tick, obs>>
     ELSE \* Reconfigure("error"); return
          /\ EndTick([tick EXCEPT !.metrics = Append(@, "error")], 0)
  /\ UNCHANGED <<storeVars, kernelVars, wpc, run, coordVars, lifeVars>>

\* A plausible slip: the flag is read and not cleared.
configReady_NoClear == [ret |-> newConfig, newConfig |-> newConfig]

\* func (b *bgpserver) configReady() bool, called with the mutex free: what
\* it returns and what it leaves in b.newConfig
configReady == [ret |-> newConfig, newConfig |-> FALSE]

\* performReconfigure: b.ipvs.CheckConfigParity(b.nodes, b.config, addresses,
\* b.configReady()); configReady() takes the mutex and clears b.newConfig.
\* outcome is what the check returns: on a nil config the source of
\* CheckConfigParity decides, so every outcome is allowed there.
ReconfigureParity(outcome, ipvsSame) ==
  /\ Alive
  /\ ppc = "pr_parity"
  /\ wpc.at # "locked"
  /\ newConfig' = configReady.newConfig
  /\ outcome \in {"same", "different", "error"}
  /\ config # NilConfig /\ outcome # "error"
       => outcome = IF CheckConfigParity(nodes, config, loc.addresses,
                                         configReady.ret, ipvsSame)
                    THEN "same" ELSE "different"
  /\ LET t == [tick EXCEPT !.cr = IF configReady.ret THEN "true" ELSE "false"]
     IN
     IF outcome = "different"
     THEN /\ BeginRun(t, 4)
          /\ obs' = [obs EXCEPT !.kept = KeptAtBegin, !.polled = TRUE]
     ELSE \* Reconfigure("error") or Reconfigure("noop"); return
          /\ EndTick([t EXCEPT !.metrics =
                        Append(@, IF outcome = "same" THEN "noop" ELSE "error")], 0)
          /\ UNCHANGED run
  /\ UNCHANGED <<config, nodes, lastInboundUpdate, lastReconfigure, kernelVars,
                 wpc, coordVars, lifeVars>>


(***************************************************************************)
(* bgpserver: configure(), configure6(), setAddresses(), setAddresses6()   *)
(***************************************************************************)

\* the VIP keys a run reads from a config: Config for v4, Config6 for v6
Keys(c, fam) == IF fam = 4 THEN c.Config ELSE c.Config6

\* A plausible slip: the configured devices of the other family are compared.
Lo_OtherFamily(fam) == IF fam = 4 THEN lo6 ELSE lo4

\* the loopback devices of a family
Lo(fam) == IF fam = 4 THEN lo4 ELSE lo6

\* A plausible slip: the removal loop is left out.
AddressStep_SkipRemovals(removals, additions) ==
  IF additions # {} THEN "sa_add" ELSE "sa_mtu"

\* where setAddresses goes on: the removal loop, the addition loop, SetMTU
AddressStep(removals, additions) ==
  IF removals # {} THEN "sa_del"
  ELSE IF additions # {} THEN "sa_add"
  ELSE "sa_mtu"

\* A plausible slip: a failed removal is skipped instead of returned.
OnDelError_Continue(removals, additions) == AddressStep(removals, additions)

\* A plausible slip: a failed removal ends the reconciler loop.
OnDelError_EndsLoop(removals, additions) == "returned"

\* if err := b.ipDevices.Del(device); err != nil { ...; return err }
OnDelError(removals, additions) == "ret"

\* A plausible slip: IPVS is programmed before the BGP update.
StepAfter_IPVSFirst(step, fam) ==
  CASE step = "sa_mtu"  -> "ipvs"
    [] step = "ipvs"    -> IF fam = 4 THEN "bgp_get" ELSE "bgp_set"
    [] step = "bgp_get" -> "bgp_set"
    [] step = "bgp_set" -> "ret"

\* the statement order of configure() (fam = 4) and configure6() (fam = 6)
\* after setAddresses / setAddresses6 has returned nil
StepAfter(step, fam) ==
  CASE step = "sa_mtu"  -> IF fam = 4 THEN "bgp_get" ELSE "bgp_set"
    [] step = "bgp_get" -> "bgp_set"
    [] step = "bgp_set" -> "ipvs"
    [] step = "ipvs"    -> "ret"

\* the run performs op, reading the values of b.config in reads
Did(op, reads) ==
  [run EXCEPT !.ops = Append(@, op), !.cfgs = @ \cup reads]

\* the run returns err from op
Failed(op) == [run EXCEPT !.ops = Append(@, op), !.err = TRUE]

\* setAddresses: b.ipDevices.Get(), then the desired devices are derived
\* from b.config (a nil b.config panics) and compared with the configured.
\* The value configReady() gave to the parity check is gone by now.
AddressesGet(ok) ==
  /\ Alive
  /\ ppc = "sa_get"
  /\ IF ~ok
     THEN /\ run' = Failed("GetErr")
          /\ ppc' = "ret"
          /\ UNCHANGED loc
     ELSE IF config = NilConfig
     THEN /\ ppc' = "panic"
          /\ run' = Did("Get", {})
          /\ UNCHANGED loc
     ELSE LET desired == { Device(ip) : ip \in Keys(config, run.fam) }
              cmp == Compare(Lo(run.fam), desired)
          IN /\ loc' = [NoLoc EXCEPT !.removals = cmp.removals,
                                     !.additions = cmp.additions]
             /\ run' = Did("Get", {config})
             /\ ppc' = AddressStep(cmp.removals, cmp.additions)
  /\ tick' = [tick EXCEPT !.cr = "none"]
  /\ UNCHANGED <<storeVars, kernelVars, wpc, obs, coordVars, lifeVars>>

\* setAddresses: one iteration of  for _, device := range removals
AddressesDel(device, ok) ==
  /\ Alive
  /\ ppc = "sa_del"
  /\ device \in loc.removals
  /\ LET rest == loc.removals \ {device} IN
     IF ok
     THEN /\ lo4' = IF run.fam = 4 THEN lo4 \ {device} ELSE lo4
          /\ lo6' = IF run.fam = 6 THEN lo6 \ {device} ELSE lo6
          /\ loc' = [loc EXCEPT !.removals = rest]
          /\ run' = Did("Del", {})
          /\ ppc' = AddressStep(rest, loc.additions)
     ELSE /\ run' = Failed("DelErr")
          /\ loc' = [loc EXCEPT !.removals = rest]
          /\ ppc' = OnDelError(rest, loc.additions)
          /\ UNCHANGED <<lo4, lo6>>
  /\ UNCHANGED <<storeVars, wpc, tick, obs, coordVars, lifeVars>>

\* setAddresses: one iteration of  for _, device := range additions
AddressesAdd(device, ok) ==
  /\ Alive
  /\ ppc = "sa_add"
  /\ device \in loc.additions
  /\ LET rest == loc.additions \ {device}
         added == Device(DevToAddr(device))
     IN
     IF ok
     THEN /\ lo4' = IF run.fam = 4 THEN lo4 \cup {added} ELSE lo4
          /\ lo6' = IF run.fam = 6 THEN lo6 \cup {added} ELSE lo6
          /\ loc' = [loc EXCEPT !.additions = rest]
          /\ run' = Did("Add", {})
          /\ ppc' = AddressStep({}, rest)
     ELSE /\ run' = Failed("AddErr")
          /\ ppc' = "ret"
          /\ UNCHANGED <<lo4, lo6, loc>>
  /\ UNCHANGED <<storeVars, wpc, tick, obs, coordVars, lifeVars>>

\* setAddresses: b.ipDevices.SetMTU(b.config.MTUConfig, false)
AddressesSetMTU(ok) ==
  /\ Alive
  /\ ppc = "sa_mtu"
  /\ IF ok
     THEN /\ run' = Did("SetMTU", {config})
          /\ ppc' = StepAfter("sa_mtu", run.fam)
     ELSE /\ run' = Failed("SetMTUErr")
          /\ ppc' = "ret"
  /\ UNCHANGED <<storeVars, kernelVars, wpc, loc, tick, obs, coordVars, lifeVars>>

\* configure: configuredAddrs, err := b.bgp.Get(b.ctx)
BgpGet(ok, got) ==
  /\ Alive
  /\ ppc = "bgp_get"
  /\ IF ok
     THEN /\ run' = [Did("bgp.Get", {}) EXCEPT !.configuredAddrs = got]
          /\ ppc' = StepAfter("bgp_get", run.fam)
     ELSE /\ run' = Failed("bgp.GetErr")
          /\ ppc' = "ret"
  /\ UNCHANGED <<storeVars, kernelVars, wpc, loc, tick, obs, coordVars, lifeVars>>

\* A plausible slip: the addresses bgp.Get reported are not passed on.
BgpSetArgs_NoPrevious(fam) ==
  [addrs |-> Keys(config, fam), prev |-> {}, cfg |-> config]

\* the arguments of b.bgp.Set(b.ctx, addrs, configuredAddrs, b.communities)
\* and of b.bgp.SetV6(b.ctx, addrs, b.communities): addrs are the keys of
\* b.config.Config / Config6 (cfg is the b.config they are read from)
BgpSetArgs(fam) ==
  [addrs |-> Keys(config, fam),
   prev |-> IF fam = 4 THEN run.configuredAddrs ELSE {},
   cfg |-> config]

\* the record of a bgp.Set / bgp.SetV6 call: the addresses passed, the
\* b.config they were read from, and whether the previously announced
\* addresses passed are the ones bgp.Get returned to this run
SetCall(args) ==
  [addrs |-> args.addrs, cfg |-> args.cfg,
   prevIsConfigured |-> args.prev = run.configuredAddrs]

\* configure: addrs from b.config.Config, b.bgp.Set(ctx, addrs, configuredAddrs,
\* communities); configure6: addrs from b.config.Config6, b.bgp.SetV6.  The
\* local configuredAddrs is not used after the call.
BgpSet(ok) ==
  /\ Alive
  /\ ppc = "bgp_set"
  /\ IF ok
     THEN /\ run' = [Did("bgp.Set", {config}) EXCEPT
                       !.announced = Keys(config, run.fam),
                       !.sets = Append(@, SetCall(BgpSetArgs(run.fam))),
                       !.configuredAddrs = {}]
          /\ ppc' = StepAfter("bgp_set", run.fam)
     ELSE /\ run' = [Failed("bgp.SetErr") EXCEPT
                       !.sets = Append(@, SetCall(BgpSetArgs(run.fam))),
                       !.configuredAddrs = {}]
          /\ ppc' = "ret"
  /\ UNCHANGED <<storeVars, kernelVars, wpc, loc, tick, obs, coordVars, lifeVars>>

\* configure: b.ipvs.SetIPVS(b.nodes, b.config, b.logger) and then
\* b.lastReconfigure = time.Now(); configure6: b.ipvs.SetIPVS6, no time stamp
SetIPVS(ok) ==
  /\ Alive
  /\ ppc = "ipvs"
  /\ IF ok
     THEN /\ run' = [Did("SetIPVS", {config}) EXCEPT
                       !.nds = @ \cup {nodes},
                       !.ops = IF run.fam = 4 THEN Append(@, "stamp") ELSE @]
          /\ lastReconfigure' = IF run.fam = 4 THEN Now ELSE lastReconfigure
          /\ ppc' = StepAfter("ipvs", run.fam)
     ELSE /\ run' = Failed("SetIPVSErr")
          /\ ppc' = "ret"
          /\ UNCHANGED lastReconfigure
  /\ UNCHANGED <<config, nodes, newConfig, lastInboundUpdate, kernelVars,
                 wpc, loc, tick, obs, coordVars, lifeVars>>

\* A plausible slip: the forced tick gives up after a failed configure(),
\* as the fast tick does.
AfterConfigure_ReturnOnError(kind, err) ==
  IF err THEN "return" ELSE "configure6"

\* what the tick does when configure() has returned err: the forced tick
\* goes on to configure6() in any case, performReconfigure returns on error
AfterConfigure(kind, err) ==
  IF kind = "forced" THEN "configure6"
  ELSE IF err THEN "return" ELSE "configure6"

\* configure() or configure6() has returned to the tick that called it
Return ==
  /\ Alive
  /\ ppc = "ret"
  /\ LET t1 == IF run.err
               THEN [tick EXCEPT !.errs = @ \cup {run.fam},
                                 !.metrics = Append(@, "critical")]
               ELSE tick
         complete == [t1 EXCEPT !.metrics = Append(@, "complete")]
     IN
     IF run.fam = 4
     THEN IF AfterConfigure(tick.kind, run.err) = "configure6"
          THEN BeginRun(t1, 6) /\ obs' = [obs EXCEPT !.kept = KeptAtReturn(run.err)]
          ELSE EndTick(t1, 4) /\ UNCHANGED run
     ELSE IF tick.kind = "fast" /\ run.err
          THEN EndTick(t1, 6) /\ UNCHANGED run
          ELSE EndTick(complete, 6) /\ UNCHANGED run
  /\ UNCHANGED <<storeVars, kernelVars, wpc, coordVars, lifeVars>>

(***************************************************************************)
(* bgpserver: the context cases of the two loops, the tickers, Stop()      *)
(***************************************************************************)

\* b.ctxWatch is done: it is a child of b.ctx (setup), and Stop() cancels it
WatchDone == ctxDone \/ "cancel" \in Range(stop.log)

\* the tickers periodic() creates
Tickers == {"queue", "fast", "forced"}

\* A ticker of periodic() fires: its channel (capacity 1) now holds a tick.
TickerFire(k) ==
  /\ Alive
  /\ ppc \notin {"off", "returned"}
  /\ Now <= MaxTime
  /\ k \notin ready
  /\ ready' = ready \cup {k}
  /\ UNCHANGED <<bgpVars, coordVars, ctxDone, stop, dir>>

\* watches(): case <-b.ctx.Done(): return
WatchesCtxDone ==
  /\ Alive
  /\ wpc.at = "select"
  /\ ctxDone
  /\ wpc' = [at |-> "returned", got |-> <<>>]
  /\ UNCHANGED <<storeVars, kernelVars, ppc, loc, tick, run, obs, coordVars, lifeVars>>

\* watches(): case <-b.ctxWatch.Done(): return
WatchesWatchDone ==
  /\ Alive
  /\ wpc.at = "select"
  /\ WatchDone
  /\ wpc' = [at |-> "returned", got |-> <<>>]
  /\ UNCHANGED <<storeVars, kernelVars, ppc, loc, tick, run, obs, coordVars, lifeVars>>

\* periodic(): case <-b.ctx.Done(): the send b.doneChan <- struct{}{} on the
\* unbuffered channel is reached and blocks until Stop() receives
PeriodicCtxDone ==
  /\ Alive
  /\ ppc = "select"
  /\ ctxDone
  /\ ppc' = "send_done"
  /\ UNCHANGED <<storeVars, kernelVars, wpc, loc, tick, run, obs, coordVars, lifeVars>>

\* periodic(): case <-b.ctxWatch.Done(): return (nothing is sent on doneChan)
PeriodicWatchDone ==
  /\ Alive
  /\ ppc = "select"
  /\ WatchDone
  /\ ppc' = "returned"
  /\ UNCHANGED <<storeVars, kernelVars, wpc, loc, tick, run, obs, coordVars, lifeVars>>

\* A plausible slip: after the timeout Stop() returns without cleaning up.
StopAfterWait_SkipOnTimeout(how) ==
  IF how = "timeout" THEN "returned" ELSE "cleanup"

\* Stop(): what follows the select on doneChan and time.After, whichever
\* case ended it
StopAfterWait(how) == "cleanup"

\* Stop(): b.cxlWatch(); on a worker that was never started b.cxlWatch is a
\* nil func and the call panics
StopCancel ==
  /\ Alive
  /\ stop.at = "idle"
  /\ stop' = IF ppc = "off"
             THEN [stop EXCEPT !.at = "panic"]
             ELSE [stop EXCEPT !.at = "wait", !.log = Append(@, "cancel")]
  /\ UNCHANGED <<bgpVars, coordVars, ctxDone, ready, dir>>

\* Stop(): case <-b.doneChan, together with periodic()'s send and return
StopRecvDone ==
  /\ Alive
  /\ stop.at = "wait"
  /\ ppc = "send_done"
  /\ ppc' = "returned"
  /\ stop' = [stop EXCEPT !.at = StopAfterWait("done"), !.log = Append(@, "done")]
  /\ UNCHANGED <<storeVars, kernelVars, wpc, loc, tick, run, obs, coordVars,
                 ctxDone, ready, dir>>

\* Stop(): case <-time.After(5000 * time.Millisecond); the timer fires
\* while no sender waits on doneChan (a waiting sender is received at once)
StopTimeout ==
  /\ Alive
  /\ stop.at = "wait"
  /\ ppc # "send_done"
  /\ stop' = [stop EXCEPT !.at = StopAfterWait("timeout"),
                          !.log = Append(@, "timeout")]
  /\ UNCHANGED <<bgpVars, coordVars, ctxDone, ready, dir>>

\* the loopback devices ipDevices.Teardown removes for a config
TeardownDevices(c) == { Device(ip) : ip \in c.Config \cup c.Config6 }

\* Stop(): err := b.cleanup(ctxDestroy); return err.  cleanup calls
\* b.ipDevices.Teardown(ctx, b.config.Config, b.config.Config6) (a nil
\* b.config panics) and returns nil or one error built from errs.
StopCleanup(ok) ==
  /\ Alive
  /\ stop.at = "cleanup"
  /\ IF config = NilConfig
     THEN /\ stop' = [stop EXCEPT !.at = "panic", !.log = Append(@, "cleanup")]
          /\ UNCHANGED <<lo4, lo6>>
     ELSE /\ stop' = [at |-> "returned", log |-> Append(stop.log, "cleanup"),
                      teardown |-> IF ok THEN "ok" ELSE "err",
                      res |-> IF ok THEN "nil" ELSE "err"]
          /\ lo4' = IF ok THEN lo4 \ TeardownDevices(config) ELSE lo4
          /\ lo6' = IF ok THEN lo6 \ TeardownDevices(config) ELSE lo6
  /\ UNCHANGED <<storeVars, wpc, ppc, loc, tick, run, obs, coordVars,
                 ctxDone, ready, dir>>

(***************************************************************************)
(* The environment and the specifications                                  *)
(***************************************************************************)

\* Something outside the worker deletes a VIP device from the loopback.  The
\* deletion is drift in the sense of scenario S4 when the reconciler is idle,
\* its last tick reconciled both families without error, no watch event has
\* arrived since that tick began, and the config still holds the VIP.
ExternalDelete(device) ==
  /\ Alive
  /\ device \in lo4
  /\ lo4' = lo4 \ {device}
  /\ obs' = [obs EXCEPT !.drift =
               IF /\ ppc = "select" /\ obs.settled /\ wpc.at = "select"
                  /\ config # NilConfig /\ DevToAddr(device) \in config.Config
               THEN {device} ELSE {},
               !.kept = "no"]
  /\ UNCHANGED <<storeVars, lo6, wpc, ppc, loc, tick, run, coordVars, lifeVars>>

\* blockForever is not part of the worker: its variables stay put
CoordIdle ==
  /\ maxTries = 1
  /\ tries = 1
  /\ lastMasterStatus = TRUE
  /\ bfState = "running"
  /\ bfResult = "none"
  /\ ctxStops = 0
  /\ hist = <<>>
  /\ dir = "off"

Init == BgpInit /\ CoordIdle

Watches ==
  \/ \E n \in NodeVals : WatchesRecvNodes(n)
  \/ WatchesCompareNodes
  \/ WatchesContinue
  \/ \E c \in ConfigVals : WatchesRecvConfig(c)
  \/ WatchesStamp

Periodic ==
  \/ LoopAgain
  \/ QueueDepthTick
  \/ ForcedTick
  \/ FastTick
  \/ \E ok \in BOOLEAN : ReconfigureGet(ok)
  \/ \E outcome \in {"same", "different", "error"}, ipvsSame \in BOOLEAN :
        ReconfigureParity(outcome, ipvsSame)
  \/ \E ok \in BOOLEAN : AddressesGet(ok)
  \/ \E device \in loc.removals, ok \in BOOLEAN : AddressesDel(device, ok)
  \/ \E device \in loc.additions, ok \in BOOLEAN : AddressesAdd(device, ok)
  \/ \E ok \in BOOLEAN : AddressesSetMTU(ok)
  \/ \E ok \in BOOLEAN, got \in BgpGetVals : BgpGet(ok, got)
  \/ \E ok \in BOOLEAN : BgpSet(ok)
  \/ \E ok \in BOOLEAN : SetIPVS(ok)
  \/ Return

Environment == \E device \in lo4 : ExternalDelete(device)

Next == Start \/ Watches \/ Periodic \/ Environment

Spec == Init /\ [][Next]_vars

\* a delivery the ConfigMap watch makes in the life of one worker: the
\* first one, or one that takes the VIPs away
MayDeliver(c) ==
  IF config = NilConfig THEN TRUE ELSE config.Config # {} /\ c.Config = {}

\* the ConfigMap watch delivers the ConfigMap and later, at most once, the
\* ConfigMap without its VIPs; the node watch delivers nothing
ConfigDelivery ==
  \/ \E c \in ConfigVals : MayDeliver(c) /\ WatchesRecvConfig(c)
  \/ WatchesStamp

WatchesReturn == WatchesCtxDone \/ WatchesWatchDone

PeriodicReturn == PeriodicCtxDone \/ PeriodicWatchDone

TickersFire == \E k \in Tickers : TickerFire(k)

StopProceeds == StopRecvDone \/ StopTimeout \/ (\E ok \in BOOLEAN : StopCleanup(ok))

NextLife ==
  \/ Start
  \/ ConfigDelivery
  \/ Periodic
  \/ RootCancel
  \/ WatchesReturn
  \/ PeriodicReturn
  \/ StopCancel
  \/ StopProceeds

\* One worker from Start to Stop(): one ConfigMap delivery, the ticks,
\* cancellation of the root context and a Stop() call by the owner.
SpecLife == Init /\ [][NextLife]_vars

\* SpecLife with the scheduling of the Go runtime: a goroutine that can take
\* a step takes it, and a select case that is ready again and again is
\* chosen in the end.  The owner need not call Stop().
FairSpecLife ==
  /\ Init
  /\ [][NextLife]_vars
  /\ WF_vars(Periodic)
  /\ WF_vars(ConfigDelivery)
  /\ SF_vars(WatchesReturn)
  /\ SF_vars(PeriodicReturn)
  /\ WF_vars(StopProceeds)

NextTickers == Start \/ ConfigDelivery \/ Periodic \/ TickersFire

\* One started worker with the channels of its tickers: a tick waits in its
\* channel until periodic()'s select receives it.
SpecTickers == Init /\ [][NextTickers]_vars

\* blockForever alone, beside a worker that was constructed and never started
InitCoord == (CoordInit \/ DirectorInit) /\ BgpInit

SpecCoord == InitCoord /\ [][CoordNext]_vars

\* SpecCoord with the scheduling of the Go runtime: a ready case of a select
\* is received in the end, and a loop that can go round does.
FairSpecCoord ==
  /\ InitCoord
  /\ [][CoordNext]_vars
  /\ WF_vars(Cancel)
  /\ WF_vars(Director)

(***************************************************************************)
(* Properties of blockForever (checked under SpecCoord)                    *)
(***************************************************************************)

\* The worker.Start() / worker.Stop() calls made by the handled probes, in order.
ProbeCalls ==
  LET made == SelectSeq(hist, LAMBDA h : h.call \in {"Start", "Stop"})
  IN [i \in 1..Len(made) |-> made[i].call]

\* C1 as stated: with maxTries > 1, a probe sequence made of a single false
\* followed only by trues, fed from the initial state, never calls Start.
C1_InitialSingleFalseNeverStarts ==
  (/\ maxTries > 1
   /\ Len(hist) >= 1
   /\ hist[1].r = FALSE
   /\ \A j \in 2..Len(hist) : hist[j].r = TRUE)
  => \A j \in 1..Len(hist) : hist[j].call # "Start"

\* C1 amended: with maxTries > 1, a single false followed only by trues, fed
\* in a state with lastMasterStatus = true and tries < maxTries (as after any
\* handled true probe, which leaves tries = 1), never calls Start.
C1_SteadySingleFalseNeverStarts ==
  \A i \in 1..Len(hist) :
    (/\ maxTries > 1
     /\ hist[i].last = TRUE
     /\ hist[i].t < maxTries
     /\ hist[i].r = FALSE
     /\ \A j \in (i+1)..Len(hist) : hist[j].r = TRUE)
    => \A j \in i..Len(hist) : hist[j].call # "Start"

\* A single false was fed with tries < maxTries and a true has followed it.
C1_Witness ==
  \E i \in 1..Len(hist) :
    /\ maxTries > 1
    /\ hist[i].last = TRUE
    /\ hist[i].t < maxTries
    /\ hist[i].r = FALSE
    /\ i < Len(hist)
    /\ \A j \in (i+1)..Len(hist) : hist[j].r = TRUE

\* The probes handled so far are maxTries falses followed by one true.
FailoverSequenceFed ==
  /\ Len(hist) = maxTries + 1
  /\ \A i \in 1..maxTries : hist[i].r = FALSE
  /\ hist[maxTries + 1].r = TRUE

\* C2: for maxTries consecutive falses followed by one true, fed from the
\* initial state, Start is called exactly once, Stop exactly once, and the
\* Start precedes the Stop.
C2_FailoverStartsOnceThenStopsOnce ==
  FailoverSequenceFed => ProbeCalls = <<"Start", "Stop">>

C2_Witness == FailoverSequenceFed /\ maxTries > 1

\* C3: a true probe handled while lastMasterStatus is false calls
\* worker.Stop() in that same handling, whatever tries is; if blockForever
\* is still in its loop afterwards, lastMasterStatus = true and tries = 1.
C3_YieldIsImmediate ==
  [][ (/\ bfState = "running"
       /\ lastMasterStatus = FALSE
       /\ Len(hist') = Len(hist) + 1
       /\ hist'[Len(hist')].r = TRUE)
      => (/\ hist'[Len(hist')].call = "Stop"
          /\ (bfState' = "running" => lastMasterStatus' = TRUE /\ tries' = 1)) ]_vars

\* A true probe was handled while lastMasterStatus was false, and the loop went on.
C3_Witness ==
  /\ bfState = "running"
  /\ Len(hist) >= 1
  /\ hist[Len(hist)].r = TRUE
  /\ hist[Len(hist)].last = FALSE
  /\ hist[Len(hist)].err = FALSE

(***************************************************************************)
(* Properties of the bgpserver reconciler (checked under Spec)             *)
(***************************************************************************)

Ops == { run.ops[i] : i \in DOMAIN run.ops }

\* C4: within one run of configure() or configure6(), every step that reads
\* b.config reads the same value, and every step that reads b.nodes reads
\* the same list, whatever watches() stores meanwhile.
C4_RunReadsOneSnapshot ==
  /\ Cardinality(run.cfgs) <= 1
  /\ Cardinality(run.nds) <= 1

\* A fast tick that began with a drifted device pending has finished, and
\* neither a watch event nor another deletion has happened since the drift.
FastTickAfterDrift ==
  /\ tick.kind = "fast"
  /\ tick.done
  /\ tick.drift # {}
  /\ obs.drift = tick.drift

\* C5 as stated: after a successful reconcile, with the config still holding
\* V and V's device deleted externally, the next fast tick re-adds V.
C5_FastTickRepairsDrift ==
  FastTickAfterDrift => tick.drift \subseteq lo4

\* The address step of a forced tick's configure() has gone through its
\* removals and additions, the tick having begun with a drifted device pending.
ForcedTickPastAddresses ==
  /\ tick.kind = "forced"
  /\ tick.drift # {}
  /\ obs.drift = tick.drift
  /\ run.fam = 4
  /\ Ops \cap {"SetMTU", "SetMTUErr"} # {}

\* C5 amended: in that situation the next fast tick is short-circuited by
\* noUpdatesReady() and runs neither configure() nor configure6(); the device
\* is back on the loopback once the address step of the next forced tick's
\* configure() has done its additions.
C5_DriftRepairedByForcedTick ==
  /\ (tick.kind = "fast" /\ tick.drift # {})
       => (tick.skipped /\ tick.done /\ tick.calls = <<>>)
  /\ ForcedTickPastAddresses => tick.drift \subseteq lo4

C5_Witness == ForcedTickPastAddresses /\ "Add" \in Ops

\* C6: a forced tick calls configure() first, whatever noUpdatesReady(), the
\* parity and newConfig are; it calls configure6() once configure() has
\* returned, with or without an error; and it ends only after both.
C6_ForcedTickRunsBoth ==
  tick.kind = "forced" =>
    /\ tick.calls \in {<<4>>, <<4, 6>>}
    /\ (4 \in tick.errs => tick.calls = <<4, 6>>)
    /\ (tick.done => tick.calls = <<4, 6>>)

\* A forced tick that began with noUpdatesReady() true has ended after a
\* failed configure().
C6_Witness ==
  /\ tick.kind = "forced"
  /\ tick.done
  /\ tick.nur
  /\ 4 \in tick.errs

AddressOps == {"Del", "Add", "SetMTU"}
BgpOps == {"bgp.Set", "bgp.SetErr"}
IpvsOps == {"SetIPVS", "SetIPVSErr"}

\* in the run, every op of the set first comes before every op of the set second
Precede(first, second) ==
  \A i, j \in DOMAIN run.ops :
    run.ops[i] \in first /\ run.ops[j] \in second => i < j

\* C7 as stated: in a run of configure(), the loopback address changes come
\* before ipvs.SetIPVS, and ipvs.SetIPVS comes before bgp.Set.
C7_AddressesThenIPVSThenBGP ==
  run.fam = 4 => Precede(AddressOps, IpvsOps) /\ Precede(IpvsOps, BgpOps)

\* C7 amended: in a run of configure(), the loopback address changes come
\* before bgp.Set, and bgp.Set comes before ipvs.SetIPVS.
C7_AddressesThenBGPThenIPVS ==
  run.fam = 4 =>
    /\ Precede(AddressOps, BgpOps)
    /\ Precede(BgpOps, IpvsOps)
    /\ Precede(AddressOps, IpvsOps)

C7_Witness ==
  /\ run.fam = 4
  /\ {"Add", "bgp.Set", "SetIPVS"} \subseteq Ops

\* C8: when ipDevices.Del fails in setAddresses or setAddresses6, it is the
\* last operation of that run of configure() or configure6(): no removal, no
\* addition, no SetMTU, no BGP call and no IPVS programming follows, the run
\* returns, and lastReconfigure is what it was when the run began.
C8_RemovalErrorAborts ==
  \A i \in DOMAIN run.ops :
    run.ops[i] = "DelErr" =>
      /\ i = Len(run.ops)
      /\ run.err
      /\ ppc \in {"ret", "done"}
      /\ lastReconfigure = run.lr0

\* A removal has failed while another removal and additions were still due.
C8_Witness ==
  /\ "DelErr" \in Ops
  /\ loc.removals # {}
  /\ run.fam = 4

\* C9, its first part: a fast tick that follows a fast tick whose configure()
\* or configure6() failed, with no watch event in between, is not
\* short-circuited by noUpdatesReady().
C9_FailedReconcileIsRetried ==
  (tick.kind = "fast" /\ tick.retryOf # 0) => ~tick.skipped

\* C10: when watches() finds the received node list equal to the held one,
\* it goes back to its select leaving b.nodes, b.config, newConfig and
\* lastInboundUpdate as they were; noUpdatesReady() answers as before and
\* periodic() is where it was.
C10_EqualNodesAreNoop ==
  [][ (wpc.at = "got_nodes" /\ NodesEqual(nodes, wpc.got) /\ wpc' # wpc)
      => (/\ wpc'.at = "noop"
          /\ UNCHANGED <<nodes, config, newConfig, lastInboundUpdate>>
          /\ noUpdatesReady' = noUpdatesReady
          /\ UNCHANGED <<ppc, tick, run>>) ]_vars

\* watches() has dropped a delivered node list that lists the held nodes in
\* another order.
C10_Witness ==
  /\ wpc.at = "noop"
  /\ nodes # <<>>
  /\ config # NilConfig

\* C11: a fast tick that begins while a delivered config is still flagged
\* (watches() has stored it, set newConfig and lastInboundUpdate and released
\* the mutex, and no fast tick has consumed the flag) is not short-circuited
\* by noUpdatesReady(), and unless ipDevices.Get or the parity check fails it
\* runs configure().
C11_DeliveryForcesReconcile ==
  (tick.kind = "fast" /\ tick.nc) =>
    /\ ~tick.skipped
    /\ (tick.done /\ "error" \notin Range(tick.metrics)) => 4 \in Range(tick.calls)

\* the loopback devices a config asks for, per family
Desired(c, fam) == { Device(ip) : ip \in Keys(c, fam) }

\* configure() of a forced tick has returned nil, and watches() has stored
\* nothing since the tick began
ForcedConfigureDone ==
  /\ tick.kind = "forced"
  /\ run.fam = 4
  /\ ppc = "ret"
  /\ ~run.err
  /\ ~obs.dirty

\* C12: when configure() of a forced tick returns nil, no watch event having
\* arrived since the tick began, every VIP that the held config does not
\* contain is off the loopback and bgp.Set was called with exactly the held
\* config's VIPs; when the forced tick ends without an error, no loopback
\* device of either family is outside the held config.
C12_RemovalConvergesByForcedTick ==
  /\ ForcedConfigureDone =>
       /\ lo4 \subseteq Desired(config, 4)
       /\ run.announced = config.Config
  /\ (tick.kind = "forced" /\ tick.done /\ tick.errs = {} /\ ~obs.dirty) =>
       /\ lo4 \subseteq Desired(config, 4)
       /\ lo6 \subseteq Desired(config, 6)

\* A forced tick's configure() has removed the devices of VIPs that the
\* delivered config no longer contains.
C12_Witness ==
  /\ ForcedConfigureDone
  /\ "Del" \in Ops
  /\ config.Config = {}

\* a configure() that runs again: the configure() before it returned nil, and
\* neither a watch event nor an outside change of the loopback has happened
\* since that one began
SecondRun ==
  /\ run.fam = 4
  /\ run.again
  /\ obs.kept = "yes"

\* C13: a configure() that runs again after a successful configure(), with no
\* watch event and no outside change of the loopback in between, calls
\* neither ipDevices.Add nor ipDevices.Del, and the loopback stays as it was
\* when the run began.
C13_SecondRunChangesNothing ==
  SecondRun =>
    /\ Ops \cap {"Add", "AddErr", "Del", "DelErr"} = {}
    /\ lo4 = run.lo0

\* The second run has gone through its address step with VIPs on the loopback.
C13_Witness ==
  /\ SecondRun
  /\ "SetMTU" \in Ops
  /\ lo4 # {}

(***************************************************************************)
(* Properties of Stop(), the tickers and cancellation                      *)
(***************************************************************************)

\* s is an initial piece of t
IsPrefix(s, t) == Len(s) <= Len(t) /\ \A i \in 1..Len(s) : s[i] = t[i]

\* C14: Stop() cancels the watch context first, then either receives from
\* doneChan (periodic() having sent and returned) or times out, then runs
\* cleanup once; having returned it has run cleanup exactly once, and its
\* result is nil exactly when Teardown succeeded and an error otherwise.
C14_StopSequence ==
  /\ \E w \in {"done", "timeout"} : IsPrefix(stop.log, <<"cancel", w, "cleanup">>)
  /\ stop.at = "wait" => stop.log = <<"cancel">>
  /\ stop.at = "cleanup" => Len(stop.log) = 2
  /\ "done" \in Range(stop.log) => ppc = "returned"
  /\ stop.at = "returned" =>
       /\ Len(stop.log) = 3
       /\ stop.teardown \in {"ok", "err"}
       /\ stop.res = (IF stop.teardown = "ok" THEN "nil" ELSE "err")

\* After a reconcile, Stop() has received the reconciler's signal, run
\* cleanup and returned the error of a failed Teardown.
C14_Witness ==
  /\ stop.at = "returned"
  /\ stop.log = <<"cancel", "done", "cleanup">>
  /\ stop.res = "err"
  /\ lastReconfigure > 0

\* C15: when the channels of the fast and of the forced ticker both hold a
\* tick as periodic() selects, the forced tick is not the one handled: the
\* fast tick is handled before it.
C15_FastBeforeForced ==
  [][ ({"fast", "forced"} \subseteq ready /\ ppc = "select" /\ ppc' # "select")
      => tick'.kind # "forced" ]_vars

\* C16: once the root context is cancelled, watches() and periodic() of a
\* started worker both return in the end (unless the process has panicked),
\* whether or not Stop() is called.
C16_CancelEndsBothTasks ==
  (ctxDone /\ ppc # "off") ~> (~Alive \/ (wpc.at = "returned" /\ ppc = "returned"))

(***************************************************************************)
(* Properties of the two commands on cancellation                          *)
(***************************************************************************)

\* blockForever was in its loop when the root context was cancelled, and
\* has returned
ReturnedAfterCancel ==
  /\ ctxDone
  /\ bfState = "returned"
  /\ \A i \in 1..Len(hist) : hist[i].err => hist[i].c

\* C17: when blockForever has returned after the root context was cancelled,
\* it has called worker.Stop() from its ctx.Done case exactly once, and since
\* the cancellation it has made no other worker.Stop() and no worker.Start()
\* call.
C17_CancelStopsOnce ==
  ReturnedAfterCancel =>
    /\ ctxStops = 1
    /\ \A i \in 1..Len(hist) : hist[i].c => hist[i].call \notin {"Start", "Stop"}

\* C18: once worker.Start() has succeeded and the root context is cancelled,
\* the director command's RunE returns in the end.
C18_DirectorReturnsOnCancel ==
  (ctxDone /\ dir \in {"select", "case"}) ~> (dir = "returned")

\* probes i .. i+k-1 are k false probes handled one after the other, the
\* first of them in a state with lastMasterStatus = true and tries = 1
FalsesFromSteady(i, k) ==
  /\ i + k - 1 <= Len(hist)
  /\ hist[i].last = TRUE
  /\ hist[i].t = 1
  /\ \A j \in i..(i + k - 1) : hist[j].r = FALSE

\* C19: counted from a state with lastMasterStatus = true and tries = 1, the
\* k-th consecutive false probe is handled with tries = k; for k < maxTries it
\* only increments tries, for k = maxTries it calls worker.Start().  A true
\* probe handled while lastMasterStatus is true calls nothing and leaves
\* lastMasterStatus = true and tries = 1.
C19_StartOnMaxTriesthFalse ==
  /\ \A i \in 1..Len(hist) : \A k \in 1..maxTries :
       FalsesFromSteady(i, k) =>
         /\ hist[i + k - 1].t = k
         /\ hist[i + k - 1].last = TRUE
         /\ hist[i + k - 1].call = (IF k < maxTries THEN "hazard" ELSE "Start")
  /\ \A i \in 1..Len(hist) :
       (hist[i].r = TRUE /\ hist[i].last = TRUE) =>
         /\ hist[i].call = "none"
         /\ i < Len(hist) => (hist[i + 1].t = 1 /\ hist[i + 1].last = TRUE)
         /\ i = Len(hist) => (tries = 1 /\ lastMasterStatus = TRUE)

\* With maxTries = 3, a false probe, a true probe and three more false probes
\* have followed the steady state: only the last of them called Start.
C19_Witness ==
  /\ maxTries = 3
  /\ Len(hist) = 5
  /\ FalsesFromSteady(3, 3)
  /\ hist[2].r = TRUE
  /\ hist[1].r = TRUE

(***************************************************************************)
(* The step sequence of configure() (checked under Spec)                   *)
(***************************************************************************)

\* the operations of a configure() that went through: ipDevices.Get, the
\* removals and additions, SetMTU, bgp.Get, bgp.Set, ipvs.SetIPVS, the stamp
FullSequence(ops) ==
  LET n == Len(ops) IN
  /\ n >= 6
  /\ ops[1] = "Get"
  /\ \A i \in 2..(n - 5) : ops[i] \in {"Del", "Add"}
  /\ <<ops[n - 4], ops[n - 3], ops[n - 2], ops[n - 1], ops[n]>>
       = <<"SetMTU", "bgp.Get", "bgp.Set", "SetIPVS", "stamp">>

\* C20: lastReconfigure is set by configure() only, as its last step after
\* setAddresses, bgp.Get, bgp.Set and ipvs.SetIPVS have all returned without
\* error, in that order; a configure() that returns an error and every
\* configure6() leave lastReconfigure as it was when the run began.
C20_StampOnlyAfterAllSteps ==
  /\ run.fam = 6 => lastReconfigure = run.lr0
  /\ run.fam = 4 =>
       /\ (lastReconfigure # run.lr0) = ("stamp" \in Ops)
       /\ "stamp" \in Ops => (FullSequence(run.ops) /\ ~run.err)
       /\ run.err => lastReconfigure = run.lr0

\* A configure() that added devices has set the stamp a second time.
C20_Witness ==
  /\ run.fam = 4
  /\ "stamp" \in Ops
  /\ "Add" \in Ops
  /\ run.lr0 > 0

(***************************************************************************)
(* The fast tick's short cut and the config store (checked under Spec)     *)
(***************************************************************************)

\* periodic() takes the case of the fast ticker in this step
FastTickBegins == ppc = "select" /\ ppc' # "select" /\ tick'.kind = "fast"

\* C21: when lastReconfigure is strictly later than lastInboundUpdate, the
\* fast tick's performReconfigure returns at once: no ipDevices.Get, no
\* parity check, newConfig not cleared, no kernel, BGP or IPVS operation, no
\* Reconfigure metric; when the two time stamps are equal (both unset
\* included) it does not return there and goes on to ipDevices.Get.
C21_SkipTouchesNothing ==
  [][ FastTickBegins =>
        IF lastReconfigure > lastInboundUpdate
        THEN /\ tick'.skipped /\ tick'.done
             /\ tick'.calls = <<>> /\ tick'.metrics = <<>>
             /\ ppc' = "done"
             /\ UNCHANGED <<config, nodes, newConfig, lastInboundUpdate,
                            lastReconfigure, lo4, lo6, loc, run, obs>>
        ELSE /\ ~tick'.skipped
             /\ ppc' = "pr_get"
             /\ (lastReconfigure = lastInboundUpdate => ~tick'.nur) ]_vars

\* A fast tick has been short-circuited while a delivered config was still
\* flagged and VIPs were on the loopback.
C21_Witness ==
  /\ tick.kind = "fast"
  /\ tick.skipped
  /\ newConfig
  /\ lo4 # {}

\* the mutex of the bgpserver is held by watches()
Locked == wpc.at = "locked"

\* performReconfigure evaluates b.configReady() in this step
ConfigReadyCalled == ppc = "pr_parity" /\ ppc' # "pr_parity"

\* C22: receiving a config replaces b.config with the delivered value and
\* sets newConfig, and lastInboundUpdate is advanced before the mutex is
\* released; configReady() does not run in between.  configReady() returns
\* true exactly when newConfig was true and leaves it false: called with no
\* delivery since the call before (or since the worker was made) it returns
\* false.  b.config changes only by a
\* delivery, so it is the last config delivered.
C22_ConfigStore ==
  [][ /\ (wpc.at = "select" /\ wpc'.at = "locked") =>
           /\ wpc'.got \in ConfigVals
           /\ config' = wpc'.got
           /\ newConfig'
      /\ (Locked /\ wpc' # wpc) =>
           /\ wpc'.at = "select"
           /\ lastInboundUpdate' > lastInboundUpdate
           /\ lastInboundUpdate' > lastReconfigure
           /\ UNCHANGED <<config, newConfig>>
      /\ Locked => ~ConfigReadyCalled
      /\ (Locked /\ wpc' = wpc) => UNCHANGED <<config, newConfig, lastInboundUpdate>>
      /\ ConfigReadyCalled =>
           /\ tick'.cr = (IF newConfig THEN "true" ELSE "false")
           /\ ~newConfig'
           /\ obs.polled => tick'.cr = "false"
      /\ config' # config => (wpc.at = "select" /\ config' = wpc'.got)
      /\ (newConfig' /\ ~newConfig) => (wpc.at = "select" /\ wpc'.at = "locked") ]_vars

\* Two configs have been delivered one after the other; the first
\* configReady() after them has returned true and the next one, with no
\* delivery in between, false.
C22_Witness ==
  /\ tick.kind = "fast"
  /\ tick.cr = "false"
  /\ obs.polled
  /\ nodes = <<>>
  /\ lastInboundUpdate = 2
  /\ config \in ConfigVals

(***************************************************************************)
(* The BGP step of configure() and configure6() (checked under Spec)       *)
(***************************************************************************)

\* the run has come to its BGP step: the address step has returned nil and,
\* in configure(), bgp.Get has too
ReachedBgpStep ==
  /\ run.fam \in {4, 6}
  /\ "SetMTU" \in Ops
  /\ run.fam = 4 => "bgp.Get" \in Ops

\* C23: a configure() that reaches its BGP step calls bgp.Set exactly once,
\* with exactly the VIP keys of b.config.Config and with the addresses that
\* bgp.Get reported in the same run; a configure6() that reaches it calls
\* bgp.SetV6 exactly once with exactly the keys of b.config.Config6; a run
\* whose address step or bgp.Get failed makes neither call.
C23_BgpSetOnceWithDesiredKeys ==
  /\ Len(run.sets) <= 1
  /\ (run.sets # <<>>) = (Ops \cap BgpOps # {})
  /\ (ReachedBgpStep /\ ppc # "bgp_set") = (Len(run.sets) = 1)
  /\ Ops \cap {"GetErr", "DelErr", "AddErr", "SetMTUErr", "bgp.GetErr"} # {}
       => (run.sets = <<>> /\ ppc \notin {"bgp_set", "ipvs"})
  /\ \A i \in DOMAIN run.sets :
       /\ run.fam = 4 => /\ run.sets[i].addrs = run.sets[i].cfg.Config
                         /\ run.sets[i].prevIsConfigured
       /\ run.fam = 6 => run.sets[i].addrs = run.sets[i].cfg.Config6

\* A configure() has called bgp.Set with the VIPs of the config and the
\* addresses bgp.Get reported, after adding the devices.
C23_Witness ==
  /\ run.fam = 4
  /\ ppc = "ipvs"
  /\ Len(run.sets) = 1
  /\ run.sets[1].addrs = {"10.0.0.1", "10.0.0.2"}
  /\ run.sets[1].prevIsConfigured
  /\ "Add" \in Ops

(***************************************************************************)
(* Stop() and the reconciler loop (checked under SpecLife)                 *)
(***************************************************************************)

\* C24: when Stop() has cancelled the watch context and the root context is
\* live, periodic() does not return while Stop() still waits for its signal,
\* and once periodic() has returned Stop() has gone on because it received
\* from doneChan, not because the 5 seconds ran out.
C24_CancelIsAcknowledged ==
  ~ctxDone =>
    /\ stop.at = "wait" => ppc # "returned"
    /\ (Len(stop.log) >= 2 /\ ppc = "returned") => stop.log[2] = "done"

\* periodic() is handling a tick: it is inside a case of its select
InTick == ppc \notin {"off", "select", "send_done", "returned", "panic"}

\* this step gives an error to the tick: configure() or configure6() fails,
\* or performReconfigure records "error" for ipDevices.Get or the parity check
ErrorInStep ==
  \/ run'.err /\ ~run.err
  \/ Len(tick'.metrics) > Len(tick.metrics)
       /\ tick'.metrics[Len(tick'.metrics)] \in {"error", "critical"}

\* C25: an error of configure(), configure6(), ipDevices.Get or
\* CheckConfigParity in a tick does not end periodic(): the tick is finished,
\* the loop goes back to its select, and periodic() leaves the loop only
\* from the select, once the root context or the watch context is cancelled.
C25_ErrorsDoNotEndLoop ==
  [][ /\ ErrorInStep => ppc' \in {"ret", "done", "sa_get"}
      /\ InTick => ppc' \notin {"off", "send_done", "returned"}
      /\ (ppc = "done" /\ ppc' # ppc) => ppc' = "select"
      /\ (ppc' \in {"send_done", "returned"} /\ ppc' # ppc /\ ppc # "send_done")
           => (ppc = "select" /\ WatchDone) ]_vars

\* After a fast tick whose reconcile failed, the next fast tick is being
\* handled, and nothing has been cancelled.
C25_Witness ==
  /\ tick.kind = "fast"
  /\ tick.retryOf # 0
  /\ ppc = "pr_get"
  /\ ~WatchDone

\* periodic() is inside configure() or configure6(): a reconcile is in progress
Reconciling ==
  ppc \in {"sa_get", "sa_del", "sa_add", "sa_mtu", "bgp_get", "bgp_set", "ipvs"}

\* C26: cleanup in Stop() does not run while periodic() is inside a
\* reconcile: the Teardown of cleanup is never executed between two steps
\* of a configure() or configure6() run.
C26_SingleKernelMutator ==
  [][ (stop.at = "cleanup" /\ stop'.at = "returned") => ~Reconciling ]_vars

(***************************************************************************)
(* The calls of blockForever (checked under SpecCoord)                     *)
(***************************************************************************)

\* C27: the worker.Start() and worker.Stop() calls that probes trigger
\* alternate, beginning with Start; while blockForever is in its loop,
\* lastMasterStatus is false exactly when the last of these calls was a
\* Start, and it is this that decides the branch of the next probe.
C27_StartStopAlternate ==
  /\ \A i \in 1..Len(ProbeCalls) :
       ProbeCalls[i] = (IF i % 2 = 1 THEN "Start" ELSE "Stop")
  /\ bfState = "running" => (lastMasterStatus = FALSE) = (Len(ProbeCalls) % 2 = 1)
  /\ \A i \in 1..Len(hist) :
       /\ hist[i].call = "Stop" => hist[i].last = FALSE
       /\ hist[i].call = "Start" => hist[i].last = TRUE

\* The worker has been started, stopped and started again, with probes in
\* between that called nothing.
C27_Witness ==
  /\ bfState = "running"
  /\ ProbeCalls = <<"Start", "Stop", "Start">>
  /\ Len(hist) > 3
  /\ lastMasterStatus = FALSE

(***************************************************************************)
(* The unset config and the metrics of a tick (checked under SpecLife)     *)
(***************************************************************************)

\* C28: while b.config is still nil (no config has been delivered),
\* periodic() is not inside configure() or configure6() and Stop() is not
\* in cleanup, so nothing dereferences the nil config and panics.
C28_NoReconcileBeforeConfig ==
  config = NilConfig =>
    /\ ~Reconciling
    /\ ppc # "panic"
    /\ stop.at # "cleanup"
    /\ "cleanup" \notin Range(stop.log)

\* C29: a tick records Reconfigure("complete") only if configure() and
\* configure6() both ran in it and returned nil, and a tick that has recorded
\* "critical" does not record "complete".
C29_CompleteMeansNoError ==
  "complete" \in Range(tick.metrics) =>
    /\ tick.calls = <<4, 6>>
    /\ tick.errs = {}
    /\ "critical" \notin Range(tick.metrics)

====
